---- MODULE Spec2Model ----
(***************************************************************************)
(* Model of the x/precisebank keeper's transfer engine: SendCoins,         *)
(* sendExtendedCoins, the fractional borrow/carry arithmetic and the three *)
(* module facades, over an x/bank ledger that stores the integer           *)
(* denomination.  SendCoins is modelled as the code runs it: an error is   *)
(* returned with the ledger moves already issued still in place.           *)
(***************************************************************************)
EXTENDS Integers, Sequences, FiniteSets, TLC

VARIABLES I, F, last, rt, arith

vars == <<I, F, last, rt, arith>>

----------------------------------------------------------------------------
(* Bounds of the model *)

\* largest integer balance an account holds in the initial state
MaxBal == 1

\* largest extended amount passed to SendCoins on its own
MaxExtAmount == 4

----------------------------------------------------------------------------
(* Constants of the program *)

\* types.ConversionFactor(): 10^12 in the program, scaled down here
ConversionFactor == 3

ExtendedCoinDenom == "aatom"

IntegerCoinDenom == "uatom"

\* a denomination x/precisebank does not manage
OtherDenom == "stake"

ModuleName == "precisebank"

\* addresses: a user account, the account of module "evm", the reserve
Reserve == "r"

Addrs == {"a", "m", Reserve}

NilAddr == "nil"

\* module names callers may pass; "ghost" has no registered account
ModuleNames == {ModuleName, "evm", "ghost"}

\* k.ak.GetModuleAddress / GetModuleAccount(...).GetAddress()
GetModuleAddress(name) ==
    CASE name = ModuleName -> Reserve
      [] name = "evm" -> "m"
      [] OTHER -> NilAddr

\* k.bk.BlockedAddr: the module accounts are blocked recipients
BlockedAddr(addr) == addr \in {"m", Reserve}

----------------------------------------------------------------------------
(* Errors *)

Err(kind, denom, spendable, requested) ==
    [kind |-> kind, denom |-> denom, spendable |-> spendable,
     requested |-> requested]

NoErr == Err("nil", "", 0, 0)

ErrInvalidCoins == Err("ErrInvalidCoins", "", 0, 0)

ErrUnauthorized == Err("ErrUnauthorized", "", 0, 0)

ErrUnknownAddress == Err("ErrUnknownAddress", "", 0, 0)

\* an error of x/bank of another kind than ErrInsufficientFunds, such as the
\* one a send restriction returns
ErrOther == Err("ErrOther", "", 0, 0)

\* sdkerrors.ErrInsufficientFunds with the balance and amount it names
ErrInsufficientFunds(denom, spendable, requested) ==
    Err("ErrInsufficientFunds", denom, spendable, requested)

----------------------------------------------------------------------------
(* sdk.Coins: a sequence of (denom, amount) entries *)

Coin(denom, amount) == [denom |-> denom, amount |-> amount]

\* lexical order of the denominations: "aatom" < "stake" < "uatom"
DenomRank(denom) ==
    CASE denom = ExtendedCoinDenom -> 1
      [] denom = OtherDenom -> 2
      [] denom = IntegerCoinDenom -> 3

\* faulty variant: every coins value counts as well-formed
IsValid_Always(coins) == TRUE

\* Coins.IsValid: amounts positive, denominations strictly increasing
IsValid(coins) ==
    /\ \A k \in 1..Len(coins) : coins[k].amount > 0
    /\ \A k \in 1..(Len(coins) - 1) :
          DenomRank(coins[k].denom) < DenomRank(coins[k + 1].denom)

\* Coins.AmountOf: the amount of denom, 0 when absent
AmountOf(coins, denom) ==
    IF \E k \in 1..Len(coins) : coins[k].denom = denom
    THEN coins[CHOOSE k \in 1..Len(coins) : coins[k].denom = denom].amount
    ELSE 0

\* faulty variant: the integer coins are taken out as well
SubCoin_DropsInteger(coins, denom) ==
    SelectSeq(coins, LAMBDA c : c.denom # denom /\ c.denom # IntegerCoinDenom)

\* Coins.Sub of one coin holding the whole amount of its denom
SubCoin(coins, denom) == SelectSeq(coins, LAMBDA c : c.denom # denom)

\* Coins.IsZero: no coin with an amount other than 0
IsZero(coins) == \A k \in 1..Len(coins) : coins[k].amount = 0

\* Coins.IsAllPositive: false for the empty set of coins
IsAllPositive(coins) ==
    /\ Len(coins) > 0
    /\ \A k \in 1..Len(coins) : coins[k].amount > 0

\* the canonical coins holding e aatom, s stake and u uatom
NewCoins(e, s, u) ==
    (IF e > 0 THEN <<Coin(ExtendedCoinDenom, e)>> ELSE <<>>)
    \o (IF s > 0 THEN <<Coin(OtherDenom, s)>> ELSE <<>>)
    \o (IF u > 0 THEN <<Coin(IntegerCoinDenom, u)>> ELSE <<>>)

ExtOnlyCoins == {NewCoins(e, 0, 0) : e \in 1..MaxExtAmount}

\* the empty coins and coins with a pass-through part
PassCoins ==
    { <<>>, NewCoins(0, 0, 1), NewCoins(0, 1, 0), NewCoins(1, 0, 1),
      NewCoins(ConversionFactor + 1, 1, 0) }

\* a zero amount; unsorted denominations
MalformedCoins ==
    { <<Coin(ExtendedCoinDenom, 0)>>,
      <<Coin(IntegerCoinDenom, 1), Coin(ExtendedCoinDenom, 1)>> }

CoinsInputs == ExtOnlyCoins \cup PassCoins \cup MalformedCoins

\* the coins passed to the facades and to the transfers between them
FacadeCoinsInputs ==
    { NewCoins(1, 0, 0), NewCoins(ConversionFactor - 1, 0, 1),
      NewCoins(1, 1, 0), <<Coin(ExtendedCoinDenom, 0)>> }

----------------------------------------------------------------------------
(* Fractional arithmetic *)

\* faulty variant: the borrowed unit is not added to the new fractional balance
subFromFractionalBalance_NoWrap(currentFractionalBalance, amountToSub) ==
    IF currentFractionalBalance >= ConversionFactor
       \/ amountToSub >= ConversionFactor
    THEN [panic |-> TRUE, bal |-> 0, flag |-> FALSE]
    ELSE [panic |-> FALSE,
          bal |-> currentFractionalBalance - amountToSub,
          flag |-> currentFractionalBalance - amountToSub < 0]

\* faulty variant: a borrow is also taken when the balance equals the amount
subFromFractionalBalance_BorrowOnZero(currentFractionalBalance, amountToSub) ==
    IF currentFractionalBalance >= ConversionFactor
       \/ amountToSub >= ConversionFactor
    THEN [panic |-> TRUE, bal |-> 0, flag |-> FALSE]
    ELSE LET newFractionalBalance == currentFractionalBalance - amountToSub
             borrowRequired == newFractionalBalance <= 0 /\ amountToSub > 0
         IN  [panic |-> FALSE,
              bal |-> IF borrowRequired
                      THEN newFractionalBalance + ConversionFactor
                      ELSE newFractionalBalance,
              flag |-> borrowRequired]

\* faulty variant: the balance is wrapped but no borrow is reported
subFromFractionalBalance_NoBorrowFlag(currentFractionalBalance, amountToSub) ==
    IF currentFractionalBalance >= ConversionFactor
       \/ amountToSub >= ConversionFactor
    THEN [panic |-> TRUE, bal |-> 0, flag |-> FALSE]
    ELSE LET newFractionalBalance == currentFractionalBalance - amountToSub
         IN  [panic |-> FALSE,
              bal |-> IF newFractionalBalance < 0
                      THEN newFractionalBalance + ConversionFactor
                      ELSE newFractionalBalance,
              flag |-> FALSE]

\* faulty variant: the amount to subtract is not checked
subFromFractionalBalance_NoAmountGuard(currentFractionalBalance, amountToSub) ==
    IF currentFractionalBalance >= ConversionFactor
    THEN [panic |-> TRUE, bal |-> 0, flag |-> FALSE]
    ELSE LET newFractionalBalance == currentFractionalBalance - amountToSub
             borrowRequired == newFractionalBalance < 0
         IN  [panic |-> FALSE,
              bal |-> IF borrowRequired
                      THEN newFractionalBalance + ConversionFactor
                      ELSE newFractionalBalance,
              flag |-> borrowRequired]

\* faulty variant: the balance is subtracted from the amount
subFromFractionalBalance_Swapped(currentFractionalBalance, amountToSub) ==
    IF currentFractionalBalance >= ConversionFactor
       \/ amountToSub >= ConversionFactor
    THEN [panic |-> TRUE, bal |-> 0, flag |-> FALSE]
    ELSE LET newFractionalBalance == amountToSub - currentFractionalBalance
             borrowRequired == newFractionalBalance < 0
         IN  [panic |-> FALSE,
              bal |-> IF borrowRequired
                      THEN newFractionalBalance + ConversionFactor
                      ELSE newFractionalBalance,
              flag |-> borrowRequired]

subFromFractionalBalance(currentFractionalBalance, amountToSub) ==
    IF currentFractionalBalance >= ConversionFactor
       \/ amountToSub >= ConversionFactor
    THEN [panic |-> TRUE, bal |-> 0, flag |-> FALSE]
    ELSE LET newFractionalBalance == currentFractionalBalance - amountToSub
             borrowRequired == newFractionalBalance < 0
         IN  [panic |-> FALSE,
              bal |-> IF borrowRequired
                      THEN newFractionalBalance + ConversionFactor
                      ELSE newFractionalBalance,
              flag |-> borrowRequired]

\* faulty variant: a carry is taken only above ConversionFactor
addToFractionalBalance_CarryAbove(currentFractionalBalance, amountToAdd) ==
    IF currentFractionalBalance >= ConversionFactor
       \/ amountToAdd >= ConversionFactor
    THEN [panic |-> TRUE, bal |-> 0, flag |-> FALSE]
    ELSE LET newFractionalBalance == currentFractionalBalance + amountToAdd
             carryRequired == newFractionalBalance > ConversionFactor
         IN  [panic |-> FALSE,
              bal |-> IF carryRequired
                      THEN newFractionalBalance - ConversionFactor
                      ELSE newFractionalBalance,
              flag |-> carryRequired]

\* faulty variant: a carry is reported but the balance is not wrapped
addToFractionalBalance_NoWrap(currentFractionalBalance, amountToAdd) ==
    IF currentFractionalBalance >= ConversionFactor
       \/ amountToAdd >= ConversionFactor
    THEN [panic |-> TRUE, bal |-> 0, flag |-> FALSE]
    ELSE [panic |-> FALSE,
          bal |-> currentFractionalBalance + amountToAdd,
          flag |-> currentFractionalBalance + amountToAdd
                     >= ConversionFactor]

\* faulty variant: the balance is wrapped but the carry is not reported
addToFractionalBalance_NoCarryFlag(currentFractionalBalance, amountToAdd) ==
    IF currentFractionalBalance >= ConversionFactor
       \/ amountToAdd >= ConversionFactor
    THEN [panic |-> TRUE, bal |-> 0, flag |-> FALSE]
    ELSE [panic |-> FALSE,
          bal |-> (currentFractionalBalance + amountToAdd)
                    % ConversionFactor,
          flag |-> FALSE]

addToFractionalBalance(currentFractionalBalance, amountToAdd) ==
    IF currentFractionalBalance >= ConversionFactor
       \/ amountToAdd >= ConversionFactor
    THEN [panic |-> TRUE, bal |-> 0, flag |-> FALSE]
    ELSE LET newFractionalBalance == currentFractionalBalance + amountToAdd
             carryRequired == newFractionalBalance >= ConversionFactor
         IN  [panic |-> FALSE,
              bal |-> IF carryRequired
                      THEN newFractionalBalance - ConversionFactor
                      ELSE newFractionalBalance,
              flag |-> carryRequired]

----------------------------------------------------------------------------
(* The underlying x/bank ledger, integer denomination *)

\* one entry of the log of ledger calls and store writes of an operation:
\* the function called and the place in SendCoins that calls it
Call(name, site, from, to, coins, value) ==
    [call |-> name, site |-> site, from |-> from, to |-> to,
     coins |-> coins, value |-> value]

\* the ledger calls of SendCoins by the place that calls; a fault names the
\* one x/bank refuses with ErrOther
NoFault == "none"

Faults == {"passthrough", "direct", "borrow", "carry"}

\* k.bk.SendCoins / SendCoinsFromAccountToModule of n uatom (plus other
\* coins the sender holds iff othOK): refused before any move, or debit the
\* sender, then credit the recipient
BankSend(bal, from, to, n, othOK, refused) ==
    IF refused
    THEN [err |-> ErrOther, I |-> bal]
    ELSE IF ~othOK
    THEN [err |-> ErrInsufficientFunds(OtherDenom, 0, 1), I |-> bal]
    ELSE IF bal[from] < n
    THEN [err |-> ErrInsufficientFunds(IntegerCoinDenom, bal[from], n),
          I |-> bal]
    ELSE LET debited == [bal EXCEPT ![from] = @ - n]
         IN  [err |-> NoErr, I |-> [debited EXCEPT ![to] = @ + n]]

\* k.GetBalance(ctx, addr, ExtendedCoinDenom)
GetBalance(bal, frac, addr) == bal[addr] * ConversionFactor + frac[addr]

----------------------------------------------------------------------------
(* The transfer engine *)

\* what an operation leaves behind: its error (NoErr on success), whether it
\* panicked, the balances it leaves, the ledger calls and store writes it
\* issued, and the events it emitted
Out(err, panic, bal, frac, trace, events) ==
    [err |-> err, panic |-> panic, I |-> bal, F |-> frac, trace |-> trace,
     events |-> events]

\* faulty variant: every error of the ledger is rewritten
updateInsufficientFundsError_RewriteAll(bal, frac, addr, amt, err) ==
    ErrInsufficientFunds(ExtendedCoinDenom, GetBalance(bal, frac, addr), amt)

updateInsufficientFundsError(bal, frac, addr, amt, err) ==
    IF err.kind # "ErrInsufficientFunds"
    THEN err
    ELSE ErrInsufficientFunds(ExtendedCoinDenom,
                              GetBalance(bal, frac, addr), amt)

\* faulty variant: no early return for a transfer to oneself
IsSelfTransfer_Never(from, to) == FALSE

\* from.Equals(to): the self-transfer guard
IsSelfTransfer(from, to) == from = to

\* faulty variant: Case #1 does not raise the direct transfer by 1
DirectAmount_NoCancel(amt, senderNeedsBorrow, recipientNeedsCarry) ==
    amt \div ConversionFactor

\* faulty variant: the direct transfer is raised by 1 whenever the sender
\* borrows
DirectAmount_BorrowOnly(amt, senderNeedsBorrow, recipientNeedsCarry) ==
    IF senderNeedsBorrow
    THEN (amt \div ConversionFactor) + 1
    ELSE amt \div ConversionFactor

\* faulty variant: the direct transfer is always raised by 1
DirectAmount_AlwaysExtra(amt, senderNeedsBorrow, recipientNeedsCarry) ==
    (amt \div ConversionFactor) + 1

\* the direct transfer: the whole units of amt, plus 1 in Case #1 where the
\* sender's borrow and the recipient's carry cancel
DirectAmount(amt, senderNeedsBorrow, recipientNeedsCarry) ==
    IF senderNeedsBorrow /\ recipientNeedsCarry
    THEN (amt \div ConversionFactor) + 1
    ELSE amt \div ConversionFactor

\* faulty variant: the borrowed unit is never paid into the reserve
NeedsBorrowMove_Never(senderNeedsBorrow, recipientNeedsCarry) == FALSE

\* faulty variant: the sender pays the borrow also when the recipient carries
NeedsBorrowMove_Always(senderNeedsBorrow, recipientNeedsCarry) ==
    senderNeedsBorrow

\* Case #2: the sender pays 1 unit into the reserve
NeedsBorrowMove(senderNeedsBorrow, recipientNeedsCarry) ==
    senderNeedsBorrow /\ ~recipientNeedsCarry

\* faulty variant: the reserve pays the carry also when the sender borrows
NeedsCarryMove_Always(senderNeedsBorrow, recipientNeedsCarry) ==
    recipientNeedsCarry

\* faulty variant: the reserve never pays the carry
NeedsCarryMove_Never(senderNeedsBorrow, recipientNeedsCarry) == FALSE

\* Case #3: the reserve pays 1 unit to the recipient
NeedsCarryMove(senderNeedsBorrow, recipientNeedsCarry) ==
    ~senderNeedsBorrow /\ recipientNeedsCarry

\* faulty variant: the two fractional balances are written before the
\* ledger moves are made
sendExtendedCoins_WritesFirst(bal, frac, from, to, amt, fault) ==
    IF IsSelfTransfer(from, to)
    THEN Out(NoErr, FALSE, bal, frac, <<>>, <<>>)
    ELSE
    LET senderFracBal == frac[from]
        recipientFracBal == frac[to]
        fractionalAmt == amt % ConversionFactor
        sub == subFromFractionalBalance(senderFracBal, fractionalAmt)
        add == addToFractionalBalance(recipientFracBal, fractionalAmt)
        senderNeedsBorrow == sub.flag
        recipientNeedsCarry == add.flag
        integerAmt == DirectAmount(amt, senderNeedsBorrow,
                                   recipientNeedsCarry)
        senderSet == [frac EXCEPT ![from] = sub.bal]
        recipientSet == [senderSet EXCEPT ![to] = add.bal]
        w == <<Call("SetFractionalBalance", "store", from, from, <<>>,
                    sub.bal),
               Call("SetFractionalBalance", "store", to, to, <<>>,
                    add.bal)>>
        direct == IF integerAmt > 0
                  THEN BankSend(bal, from, to, integerAmt, TRUE,
                                fault = "direct")
                  ELSE [err |-> NoErr, I |-> bal]
        t1 == IF integerAmt > 0
              THEN w \o <<Call("bk.SendCoins", "direct", from, to,
                               NewCoins(0, 0, integerAmt), 0)>>
              ELSE w
        reserveAddr == GetModuleAddress(ModuleName)
        borrowMove == NeedsBorrowMove(senderNeedsBorrow, recipientNeedsCarry)
        borrow == IF borrowMove
                  THEN BankSend(direct.I, from, reserveAddr, 1, TRUE,
                                fault = "borrow")
                  ELSE [err |-> NoErr, I |-> direct.I]
        t2 == IF borrowMove
              THEN t1 \o <<Call("bk.SendCoinsFromAccountToModule", "borrow",
                                from, reserveAddr, NewCoins(0, 0, 1), 0)>>
              ELSE t1
        carryMove == NeedsCarryMove(senderNeedsBorrow, recipientNeedsCarry)
        carry == IF carryMove
                 THEN BankSend(borrow.I, reserveAddr, to, 1, TRUE,
                               fault = "carry")
                 ELSE [err |-> NoErr, I |-> borrow.I]
        t3 == IF carryMove
              THEN t2 \o <<Call("bk.SendCoins", "carry", reserveAddr, to,
                                NewCoins(0, 0, 1), 0)>>
              ELSE t2
    IN  IF sub.panic \/ add.panic
        THEN Out(NoErr, TRUE, bal, frac, <<>>, <<>>)
        ELSE IF direct.err # NoErr
        THEN Out(updateInsufficientFundsError(direct.I, recipientSet, from,
                                              amt, direct.err),
                 FALSE, direct.I, recipientSet, t1, <<>>)
        ELSE IF borrow.err # NoErr
        THEN Out(updateInsufficientFundsError(borrow.I, recipientSet, from,
                                              amt, borrow.err),
                 FALSE, borrow.I, recipientSet, t2, <<>>)
        ELSE IF carry.err # NoErr
        THEN Out(NoErr, TRUE, carry.I, recipientSet, t3, <<>>)
        ELSE Out(NoErr, FALSE, carry.I, recipientSet, t3, <<>>)

\* faulty variant: the two fractional balances are written although the
\* carry move out of the reserve failed
sendExtendedCoins_WritesBeforeCarry(bal, frac, from, to, amt, fault) ==
    IF IsSelfTransfer(from, to)
    THEN Out(NoErr, FALSE, bal, frac, <<>>, <<>>)
    ELSE
    LET senderFracBal == frac[from]
        recipientFracBal == frac[to]
        fractionalAmt == amt % ConversionFactor
        sub == subFromFractionalBalance(senderFracBal, fractionalAmt)
        add == addToFractionalBalance(recipientFracBal, fractionalAmt)
        senderNeedsBorrow == sub.flag
        recipientNeedsCarry == add.flag
        integerAmt == DirectAmount(amt, senderNeedsBorrow,
                                   recipientNeedsCarry)
        direct == IF integerAmt > 0
                  THEN BankSend(bal, from, to, integerAmt, TRUE,
                                fault = "direct")
                  ELSE [err |-> NoErr, I |-> bal]
        t1 == IF integerAmt > 0
              THEN <<Call("bk.SendCoins", "direct", from, to,
                          NewCoins(0, 0, integerAmt), 0)>>
              ELSE <<>>
        reserveAddr == GetModuleAddress(ModuleName)
        borrowMove == NeedsBorrowMove(senderNeedsBorrow, recipientNeedsCarry)
        borrow == IF borrowMove
                  THEN BankSend(direct.I, from, reserveAddr, 1, TRUE,
                                fault = "borrow")
                  ELSE [err |-> NoErr, I |-> direct.I]
        t2 == IF borrowMove
              THEN t1 \o <<Call("bk.SendCoinsFromAccountToModule", "borrow",
                                from, reserveAddr, NewCoins(0, 0, 1), 0)>>
              ELSE t1
        carryMove == NeedsCarryMove(senderNeedsBorrow, recipientNeedsCarry)
        carry == IF carryMove
                 THEN BankSend(borrow.I, reserveAddr, to, 1, TRUE,
                               fault = "carry")
                 ELSE [err |-> NoErr, I |-> borrow.I]
        t3 == IF carryMove
              THEN t2 \o <<Call("bk.SendCoins", "carry", reserveAddr, to,
                                NewCoins(0, 0, 1), 0)>>
              ELSE t2
        senderSet == [frac EXCEPT ![from] = sub.bal]
        recipientSet == [senderSet EXCEPT ![to] = add.bal]
    IN  IF sub.panic \/ add.panic
        THEN Out(NoErr, TRUE, bal, frac, <<>>, <<>>)
        ELSE IF direct.err # NoErr
        THEN Out(updateInsufficientFundsError(direct.I, frac, from, amt,
                                              direct.err),
                 FALSE, direct.I, frac, t1, <<>>)
        ELSE IF borrow.err # NoErr
        THEN Out(updateInsufficientFundsError(borrow.I, frac, from, amt,
                                              borrow.err),
                 FALSE, borrow.I, frac, t2, <<>>)
        ELSE IF carry.err # NoErr
        THEN Out(NoErr, TRUE, carry.I, recipientSet,
                 t3 \o <<Call("SetFractionalBalance", "store", from, from,
                              <<>>, sub.bal),
                         Call("SetFractionalBalance", "store", to, to,
                              <<>>, add.bal)>>,
                 <<>>)
        ELSE Out(NoErr, FALSE, carry.I, recipientSet,
                 t3 \o <<Call("SetFractionalBalance", "store", from, from,
                              <<>>, sub.bal),
                         Call("SetFractionalBalance", "store", to, to,
                              <<>>, add.bal)>>,
                 <<>>)

\* faulty variant: the recipient's new fractional balance is written to the
\* reserve account
sendExtendedCoins_WritesReserve(bal, frac, from, to, amt, fault) ==
    IF IsSelfTransfer(from, to)
    THEN Out(NoErr, FALSE, bal, frac, <<>>, <<>>)
    ELSE
    LET senderFracBal == frac[from]
        recipientFracBal == frac[to]
        fractionalAmt == amt % ConversionFactor
        sub == subFromFractionalBalance(senderFracBal, fractionalAmt)
        add == addToFractionalBalance(recipientFracBal, fractionalAmt)
        senderNeedsBorrow == sub.flag
        recipientNeedsCarry == add.flag
        integerAmt == DirectAmount(amt, senderNeedsBorrow,
                                   recipientNeedsCarry)
        direct == IF integerAmt > 0
                  THEN BankSend(bal, from, to, integerAmt, TRUE,
                                fault = "direct")
                  ELSE [err |-> NoErr, I |-> bal]
        t1 == IF integerAmt > 0
              THEN <<Call("bk.SendCoins", "direct", from, to,
                          NewCoins(0, 0, integerAmt), 0)>>
              ELSE <<>>
        reserveAddr == GetModuleAddress(ModuleName)
        borrowMove == NeedsBorrowMove(senderNeedsBorrow, recipientNeedsCarry)
        borrow == IF borrowMove
                  THEN BankSend(direct.I, from, reserveAddr, 1, TRUE,
                                fault = "borrow")
                  ELSE [err |-> NoErr, I |-> direct.I]
        t2 == IF borrowMove
              THEN t1 \o <<Call("bk.SendCoinsFromAccountToModule", "borrow",
                                from, reserveAddr, NewCoins(0, 0, 1), 0)>>
              ELSE t1
        carryMove == NeedsCarryMove(senderNeedsBorrow, recipientNeedsCarry)
        carry == IF carryMove
                 THEN BankSend(borrow.I, reserveAddr, to, 1, TRUE,
                               fault = "carry")
                 ELSE [err |-> NoErr, I |-> borrow.I]
        t3 == IF carryMove
              THEN t2 \o <<Call("bk.SendCoins", "carry", reserveAddr, to,
                                NewCoins(0, 0, 1), 0)>>
              ELSE t2
        senderSet == [frac EXCEPT ![from] = sub.bal]
        recipientSet == [senderSet EXCEPT ![reserveAddr] = add.bal]
    IN  IF sub.panic \/ add.panic
        THEN Out(NoErr, TRUE, bal, frac, <<>>, <<>>)
        ELSE IF direct.err # NoErr
        THEN Out(updateInsufficientFundsError(direct.I, frac, from, amt,
                                              direct.err),
                 FALSE, direct.I, frac, t1, <<>>)
        ELSE IF borrow.err # NoErr
        THEN Out(updateInsufficientFundsError(borrow.I, frac, from, amt,
                                              borrow.err),
                 FALSE, borrow.I, frac, t2, <<>>)
        ELSE IF carry.err # NoErr
        THEN Out(NoErr, TRUE, carry.I, frac, t3, <<>>)
        ELSE Out(NoErr, FALSE, carry.I, recipientSet,
                 t3 \o <<Call("SetFractionalBalance", "store", from, from,
                              <<>>, sub.bal),
                         Call("SetFractionalBalance", "store", reserveAddr,
                              reserveAddr, <<>>, add.bal)>>,
                 <<>>)

\* faulty variant: the whole amount, not its remainder by ConversionFactor,
\* is passed to the fractional arithmetic
sendExtendedCoins_WholeAmount(bal, frac, from, to, amt, fault) ==
    IF IsSelfTransfer(from, to)
    THEN Out(NoErr, FALSE, bal, frac, <<>>, <<>>)
    ELSE
    LET senderFracBal == frac[from]
        recipientFracBal == frac[to]
        fractionalAmt == amt
        sub == subFromFractionalBalance(senderFracBal, fractionalAmt)
        add == addToFractionalBalance(recipientFracBal, fractionalAmt)
        senderNeedsBorrow == sub.flag
        recipientNeedsCarry == add.flag
        integerAmt == DirectAmount(amt, senderNeedsBorrow,
                                   recipientNeedsCarry)
        direct == IF integerAmt > 0
                  THEN BankSend(bal, from, to, integerAmt, TRUE,
                                fault = "direct")
                  ELSE [err |-> NoErr, I |-> bal]
        t1 == IF integerAmt > 0
              THEN <<Call("bk.SendCoins", "direct", from, to,
                          NewCoins(0, 0, integerAmt), 0)>>
              ELSE <<>>
        reserveAddr == GetModuleAddress(ModuleName)
        borrowMove == NeedsBorrowMove(senderNeedsBorrow, recipientNeedsCarry)
        borrow == IF borrowMove
                  THEN BankSend(direct.I, from, reserveAddr, 1, TRUE,
                                fault = "borrow")
                  ELSE [err |-> NoErr, I |-> direct.I]
        t2 == IF borrowMove
              THEN t1 \o <<Call("bk.SendCoinsFromAccountToModule", "borrow",
                                from, reserveAddr, NewCoins(0, 0, 1), 0)>>
              ELSE t1
        carryMove == NeedsCarryMove(senderNeedsBorrow, recipientNeedsCarry)
        carry == IF carryMove
                 THEN BankSend(borrow.I, reserveAddr, to, 1, TRUE,
                               fault = "carry")
                 ELSE [err |-> NoErr, I |-> borrow.I]
        t3 == IF carryMove
              THEN t2 \o <<Call("bk.SendCoins", "carry", reserveAddr, to,
                                NewCoins(0, 0, 1), 0)>>
              ELSE t2
        senderSet == [frac EXCEPT ![from] = sub.bal]
        recipientSet == [senderSet EXCEPT ![to] = add.bal]
    IN  IF sub.panic \/ add.panic
        THEN Out(NoErr, TRUE, bal, frac, <<>>, <<>>)
        ELSE IF direct.err # NoErr
        THEN Out(updateInsufficientFundsError(direct.I, frac, from, amt,
                                              direct.err),
                 FALSE, direct.I, frac, t1, <<>>)
        ELSE IF borrow.err # NoErr
        THEN Out(updateInsufficientFundsError(borrow.I, frac, from, amt,
                                              borrow.err),
                 FALSE, borrow.I, frac, t2, <<>>)
        ELSE IF carry.err # NoErr
        THEN Out(NoErr, TRUE, carry.I, frac, t3, <<>>)
        ELSE Out(NoErr, FALSE, carry.I, recipientSet,
                 t3 \o <<Call("SetFractionalBalance", "store", from, from,
                              <<>>, sub.bal),
                         Call("SetFractionalBalance", "store", to, to,
                              <<>>, add.bal)>>,
                 <<>>)

sendExtendedCoins(bal, frac, from, to, amt, fault) ==
    IF IsSelfTransfer(from, to)
    THEN Out(NoErr, FALSE, bal, frac, <<>>, <<>>)
    ELSE
    LET senderFracBal == frac[from]
        recipientFracBal == frac[to]
        fractionalAmt == amt % ConversionFactor
        sub == subFromFractionalBalance(senderFracBal, fractionalAmt)
        add == addToFractionalBalance(recipientFracBal, fractionalAmt)
        senderNeedsBorrow == sub.flag
        recipientNeedsCarry == add.flag
        integerAmt == DirectAmount(amt, senderNeedsBorrow,
                                   recipientNeedsCarry)
        direct == IF integerAmt > 0
                  THEN BankSend(bal, from, to, integerAmt, TRUE,
                                fault = "direct")
                  ELSE [err |-> NoErr, I |-> bal]
        t1 == IF integerAmt > 0
              THEN <<Call("bk.SendCoins", "direct", from, to,
                          NewCoins(0, 0, integerAmt), 0)>>
              ELSE <<>>
        reserveAddr == GetModuleAddress(ModuleName)
        borrowMove == NeedsBorrowMove(senderNeedsBorrow, recipientNeedsCarry)
        borrow == IF borrowMove
                  THEN BankSend(direct.I, from, reserveAddr, 1, TRUE,
                                fault = "borrow")
                  ELSE [err |-> NoErr, I |-> direct.I]
        t2 == IF borrowMove
              THEN t1 \o <<Call("bk.SendCoinsFromAccountToModule", "borrow",
                                from, reserveAddr, NewCoins(0, 0, 1), 0)>>
              ELSE t1
        carryMove == NeedsCarryMove(senderNeedsBorrow, recipientNeedsCarry)
        carry == IF carryMove
                 THEN BankSend(borrow.I, reserveAddr, to, 1, TRUE,
                               fault = "carry")
                 ELSE [err |-> NoErr, I |-> borrow.I]
        t3 == IF carryMove
              THEN t2 \o <<Call("bk.SendCoins", "carry", reserveAddr, to,
                                NewCoins(0, 0, 1), 0)>>
              ELSE t2
        senderSet == [frac EXCEPT ![from] = sub.bal]
        recipientSet == [senderSet EXCEPT ![to] = add.bal]
    IN  IF sub.panic \/ add.panic
        THEN Out(NoErr, TRUE, bal, frac, <<>>, <<>>)
        ELSE IF direct.err # NoErr
        THEN Out(updateInsufficientFundsError(direct.I, frac, from, amt,
                                              direct.err),
                 FALSE, direct.I, frac, t1, <<>>)
        ELSE IF borrow.err # NoErr
        THEN Out(updateInsufficientFundsError(borrow.I, frac, from, amt,
                                              borrow.err),
                 FALSE, borrow.I, frac, t2, <<>>)
        ELSE IF carry.err # NoErr
        THEN Out(NoErr, TRUE, carry.I, frac, t3, <<>>)
        ELSE Out(NoErr, FALSE, carry.I, recipientSet,
                 t3 \o <<Call("SetFractionalBalance", "store", from, from,
                              <<>>, sub.bal),
                         Call("SetFractionalBalance", "store", to, to,
                              <<>>, add.bal)>>,
                 <<>>)

\* types.SumExtendedCoin: the extended plus the integer amount, as one coin
\* of aatom
SumExtendedCoin(amt) ==
    Coin(ExtendedCoinDenom,
         AmountOf(amt, ExtendedCoinDenom)
         + AmountOf(amt, IntegerCoinDenom) * ConversionFactor)

\* faulty variant: the integer coins passed through are left out of the
\* amount of the events
fullEmissionCoins_ExtendedOnly(amt) ==
    NewCoins(AmountOf(amt, ExtendedCoinDenom), 0, 0)

\* sdk.NewCoins(types.SumExtendedCoin(amt)): the coin, dropped when its
\* amount is 0
fullEmissionCoins(amt) ==
    LET sum == SumExtendedCoin(amt)
    IN  IF sum.amount = 0 THEN <<>> ELSE <<sum>>

\* faulty variant: the events are emitted before the extended transfer
EmittedAfter_BeforeExtended(passLog, extLog) == Len(passLog)

\* EmitEvents is the last statement of SendCoins: the calls and writes of
\* the pass-through and of the extended transfer precede it
EmittedAfter(passLog, extLog) == Len(passLog) + Len(extLog)

\* the transfer, coin_spent and coin_received events of one SendCoins, with
\* the number of ledger calls and store writes done before they are emitted
\* faulty variant: no event is emitted for a transfer of an account to itself
TransferEvents_SkipSelf(from, to, amount, after) ==
    IF from = to
    THEN <<>>
    ELSE << [type |-> "transfer", recipient |-> to, sender |-> from,
             amount |-> amount, after |-> after],
            [type |-> "coin_spent", recipient |-> "", sender |-> from,
             amount |-> amount, after |-> after],
            [type |-> "coin_received", recipient |-> to, sender |-> "",
             amount |-> amount, after |-> after] >>

TransferEvents(from, to, amount, after) ==
    << [type |-> "transfer", recipient |-> to, sender |-> from,
        amount |-> amount, after |-> after],
       [type |-> "coin_spent", recipient |-> "", sender |-> from,
        amount |-> amount, after |-> after],
       [type |-> "coin_received", recipient |-> to, sender |-> "",
        amount |-> amount, after |-> after] >>

\* the send-enabled configuration of x/bank: the denominations enabled for
\* sending
Denoms == {ExtendedCoinDenom, IntegerCoinDenom, OtherDenom}

AllSendEnabled == Denoms

SendEnabledConfigs == SUBSET Denoms

\* the configurations the facade calls are made under
SendEnabledInputs == {{}, AllSendEnabled}

ErrSendDisabled == Err("ErrSendDisabled", "", 0, 0)

\* k.bk.IsSendEnabledCoins: ErrSendDisabled if a coin's denomination is not
\* enabled for sending
IsSendEnabledCoins(enabled, coins) ==
    IF \E k \in 1..Len(coins) : coins[k].denom \notin enabled
    THEN ErrSendDisabled
    ELSE NoErr

\* faulty variant: SendCoins checks that sending is enabled
SendEnabledCheck_Consulted(enabled, amt) == IsSendEnabledCoins(enabled, amt)

\* SendCoins does not call IsSendEnabledCoins, as the keeper of x/bank does
\* not
SendEnabledCheck(enabled, amt) == NoErr

\* faulty variant: the error of the pass-through call is dropped and the
\* extended transfer goes ahead
SendCoins_IgnorePassError(bal, frac, from, to, amt, othOK, fault, enabled) ==
    IF SendEnabledCheck(enabled, amt) # NoErr
    THEN Out(SendEnabledCheck(enabled, amt), FALSE, bal, frac, <<>>, <<>>)
    ELSE IF ~IsValid(amt)
    THEN Out(ErrInvalidCoins, FALSE, bal, frac, <<>>, <<>>)
    ELSE
    LET extendedCoinAmount == AmountOf(amt, ExtendedCoinDenom)
        passthroughCoins == IF extendedCoinAmount > 0
                            THEN SubCoin(amt, ExtendedCoinDenom)
                            ELSE amt
        hasPass == IsAllPositive(passthroughCoins)
        pass == IF hasPass
                THEN BankSend(bal, from, to,
                              AmountOf(passthroughCoins, IntegerCoinDenom),
                              AmountOf(passthroughCoins, OtherDenom) = 0
                                \/ othOK,
                              fault = "passthrough")
                ELSE [err |-> NoErr, I |-> bal]
        t0 == IF hasPass
              THEN <<Call("bk.SendCoins", "passthrough", from, to,
                          passthroughCoins, 0)>>
              ELSE <<>>
        ext == IF extendedCoinAmount > 0
               THEN sendExtendedCoins(pass.I, frac, from, to,
                                      extendedCoinAmount, fault)
               ELSE Out(NoErr, FALSE, pass.I, frac, <<>>, <<>>)
    IN  IF ext.panic \/ ext.err # NoErr
        THEN Out(ext.err, ext.panic, ext.I, ext.F, t0 \o ext.trace, <<>>)
        ELSE Out(NoErr, FALSE, ext.I, ext.F, t0 \o ext.trace,
                 IF IsZero(fullEmissionCoins(amt))
                 THEN <<>>
                 ELSE TransferEvents(from, to, fullEmissionCoins(amt),
                                     EmittedAfter(t0, ext.trace)))

\* othOK: the sender holds the coins of other denominations it is sending
SendCoins(bal, frac, from, to, amt, othOK, fault, enabled) ==
    IF SendEnabledCheck(enabled, amt) # NoErr
    THEN Out(SendEnabledCheck(enabled, amt), FALSE, bal, frac, <<>>, <<>>)
    ELSE IF ~IsValid(amt)
    THEN Out(ErrInvalidCoins, FALSE, bal, frac, <<>>, <<>>)
    ELSE
    LET extendedCoinAmount == AmountOf(amt, ExtendedCoinDenom)
        passthroughCoins == IF extendedCoinAmount > 0
                            THEN SubCoin(amt, ExtendedCoinDenom)
                            ELSE amt
        hasPass == IsAllPositive(passthroughCoins)
        pass == IF hasPass
                THEN BankSend(bal, from, to,
                              AmountOf(passthroughCoins, IntegerCoinDenom),
                              AmountOf(passthroughCoins, OtherDenom) = 0
                                \/ othOK,
                              fault = "passthrough")
                ELSE [err |-> NoErr, I |-> bal]
        t0 == IF hasPass
              THEN <<Call("bk.SendCoins", "passthrough", from, to,
                          passthroughCoins, 0)>>
              ELSE <<>>
        ext == IF extendedCoinAmount > 0
               THEN sendExtendedCoins(pass.I, frac, from, to,
                                      extendedCoinAmount, fault)
               ELSE Out(NoErr, FALSE, pass.I, frac, <<>>, <<>>)
    IN  IF pass.err # NoErr
        THEN Out(pass.err, FALSE, pass.I, frac, t0, <<>>)
        ELSE IF ext.panic \/ ext.err # NoErr
        THEN Out(ext.err, ext.panic, ext.I, ext.F, t0 \o ext.trace, <<>>)
        ELSE Out(NoErr, FALSE, ext.I, ext.F, t0 \o ext.trace,
                 IF IsZero(fullEmissionCoins(amt))
                 THEN <<>>
                 ELSE TransferEvents(from, to, fullEmissionCoins(amt),
                                     EmittedAfter(t0, ext.trace)))

----------------------------------------------------------------------------
(* The module facades *)

\* a facade's outcome: the outcome of the operation plus the SendCoins call
\* it delegated to, if any
Facade(out, delegated, from, to) ==
    [out |-> out, delegated |-> delegated, from |-> from, to |-> to]

Refused(err, panic, bal, frac) ==
    Facade(Out(err, panic, bal, frac, <<>>, <<>>), FALSE, NilAddr, NilAddr)

\* faulty variant: sender and recipient are passed to SendCoins in the wrong
\* order
SendCoinsFromAccountToModule_Swapped(bal, frac, senderAddr, recipientModule, amt, othOK, fault, enabled) ==
    LET recipientAcc == GetModuleAddress(recipientModule)
    IN  IF recipientAcc = NilAddr
        THEN Refused(ErrUnknownAddress, TRUE, bal, frac)
        ELSE IF recipientModule = ModuleName
        THEN Refused(ErrUnauthorized, FALSE, bal, frac)
        ELSE Facade(SendCoins(bal, frac, recipientAcc, senderAddr, amt,
                              othOK, fault, enabled),
                    TRUE, recipientAcc, senderAddr)

SendCoinsFromAccountToModule(bal, frac, senderAddr, recipientModule, amt, othOK, fault, enabled) ==
    LET recipientAcc == GetModuleAddress(recipientModule)
    IN  IF recipientAcc = NilAddr
        THEN Refused(ErrUnknownAddress, TRUE, bal, frac)
        ELSE IF recipientModule = ModuleName
        THEN Refused(ErrUnauthorized, FALSE, bal, frac)
        ELSE Facade(SendCoins(bal, frac, senderAddr, recipientAcc, amt,
                              othOK, fault, enabled),
                    TRUE, senderAddr, recipientAcc)

\* faulty variant: the reserve may be the sending module
SendCoinsFromModuleToAccount_NoSenderCheck(bal, frac, senderModule, recipientAddr, amt, othOK, fault, enabled) ==
    LET senderAddr == GetModuleAddress(senderModule)
    IN  IF senderAddr = NilAddr
        THEN Refused(ErrUnknownAddress, TRUE, bal, frac)
        ELSE IF BlockedAddr(recipientAddr)
        THEN Refused(ErrUnauthorized, FALSE, bal, frac)
        ELSE Facade(SendCoins(bal, frac, senderAddr, recipientAddr, amt,
                              othOK, fault, enabled),
                    TRUE, senderAddr, recipientAddr)

\* faulty variant: blocked recipients are not turned away
SendCoinsFromModuleToAccount_NoBlockedCheck(bal, frac, senderModule, recipientAddr, amt, othOK, fault, enabled) ==
    LET senderAddr == GetModuleAddress(senderModule)
    IN  IF senderAddr = NilAddr
        THEN Refused(ErrUnknownAddress, TRUE, bal, frac)
        ELSE IF senderModule = ModuleName
        THEN Refused(ErrUnauthorized, FALSE, bal, frac)
        ELSE Facade(SendCoins(bal, frac, senderAddr, recipientAddr, amt,
                              othOK, fault, enabled),
                    TRUE, senderAddr, recipientAddr)

SendCoinsFromModuleToAccount(bal, frac, senderModule, recipientAddr, amt, othOK, fault, enabled) ==
    LET senderAddr == GetModuleAddress(senderModule)
    IN  IF senderAddr = NilAddr
        THEN Refused(ErrUnknownAddress, TRUE, bal, frac)
        ELSE IF senderModule = ModuleName
        THEN Refused(ErrUnauthorized, FALSE, bal, frac)
        ELSE IF BlockedAddr(recipientAddr)
        THEN Refused(ErrUnauthorized, FALSE, bal, frac)
        ELSE Facade(SendCoins(bal, frac, senderAddr, recipientAddr, amt,
                              othOK, fault, enabled),
                    TRUE, senderAddr, recipientAddr)

\* faulty variant: the reserve may be the receiving module
SendCoinsFromModuleToModule_NoRecipientCheck(bal, frac, senderModule, recipientModule, amt, othOK, fault, enabled) ==
    LET senderAddr == GetModuleAddress(senderModule)
        recipientAcc == GetModuleAddress(recipientModule)
    IN  IF senderAddr = NilAddr
        THEN Refused(ErrUnknownAddress, TRUE, bal, frac)
        ELSE IF recipientAcc = NilAddr
        THEN Refused(ErrUnknownAddress, TRUE, bal, frac)
        ELSE Facade(SendCoins(bal, frac, senderAddr, recipientAcc, amt,
                              othOK, fault, enabled),
                    TRUE, senderAddr, recipientAcc)

\* faulty variant: the reserve is refused as recipient before the module
\* accounts are looked up
SendCoinsFromModuleToModule_UnauthorizedFirst(bal, frac, senderModule, recipientModule, amt, othOK, fault, enabled) ==
    LET senderAddr == GetModuleAddress(senderModule)
        recipientAcc == GetModuleAddress(recipientModule)
    IN  IF recipientModule = ModuleName
        THEN Refused(ErrUnauthorized, FALSE, bal, frac)
        ELSE IF senderAddr = NilAddr
        THEN Refused(ErrUnknownAddress, TRUE, bal, frac)
        ELSE IF recipientAcc = NilAddr
        THEN Refused(ErrUnknownAddress, TRUE, bal, frac)
        ELSE Facade(SendCoins(bal, frac, senderAddr, recipientAcc, amt,
                              othOK, fault, enabled),
                    TRUE, senderAddr, recipientAcc)

SendCoinsFromModuleToModule(bal, frac, senderModule, recipientModule, amt, othOK, fault, enabled) ==
    LET senderAddr == GetModuleAddress(senderModule)
        recipientAcc == GetModuleAddress(recipientModule)
    IN  IF senderAddr = NilAddr
        THEN Refused(ErrUnknownAddress, TRUE, bal, frac)
        ELSE IF recipientAcc = NilAddr
        THEN Refused(ErrUnknownAddress, TRUE, bal, frac)
        ELSE IF recipientModule = ModuleName
        THEN Refused(ErrUnauthorized, FALSE, bal, frac)
        ELSE Facade(SendCoins(bal, frac, senderAddr, recipientAcc, amt,
                              othOK, fault, enabled),
                    TRUE, senderAddr, recipientAcc)

----------------------------------------------------------------------------
(* State machine *)

\* the record of the last operation: its name and arguments, the balances
\* at its entry and its outcome
Record(op, from, to, amt, fault, enabled, f) ==
    [op |-> op, from |-> from, to |-> to, coins |-> amt, fault |-> fault,
     enabled |-> enabled,
     preI |-> I, preF |-> F,
     err |-> f.out.err, panic |-> f.out.panic, trace |-> f.out.trace,
     events |-> f.out.events,
     delegated |-> f.delegated, sendFrom |-> f.from, sendTo |-> f.to]

NoRecord ==
    [op |-> "none", from |-> NilAddr, to |-> NilAddr, coins |-> <<>>,
     fault |-> NoFault, enabled |-> AllSendEnabled,
     preI |-> I, preF |-> F,
     err |-> NoErr, panic |-> FALSE, trace |-> <<>>, events |-> <<>>,
     delegated |-> FALSE, sendFrom |-> NilAddr, sendTo |-> NilAddr]

\* bookkeeping of a transfer A -> B followed by the same amount B -> A
NoRoundTrip ==
    [phase |-> 0, A |-> NilAddr, B |-> NilAddr, amount |-> 0,
     preI |-> [x \in Addrs |-> 0], preF |-> [x \in Addrs |-> 0],
     ok |-> FALSE]

\* one call of subFromFractionalBalance or addToFractionalBalance: the
\* arguments, and once it is made the function and what it returned
ArithCall(op, f, d, r) ==
    [op |-> op, f |-> f, d |-> d, panic |-> r.panic, bal |-> r.bal,
     flag |-> r.flag]

NoArith ==
    ArithCall("none", 0, 0, [panic |-> FALSE, bal |-> 0, flag |-> FALSE])

\* every fractional balance 0, an empty reserve, small integer balances
Init ==
    /\ I \in {bal \in [Addrs -> 0..MaxBal] : bal[Reserve] = 0}
    /\ F = [x \in Addrs |-> 0]
    /\ last = NoRecord
    /\ rt = NoRoundTrip
    /\ arith = NoArith

Apply(op, from, to, amt, fault, enabled, f) ==
    /\ I' = f.out.I
    /\ F' = f.out.F
    /\ last' = Record(op, from, to, amt, fault, enabled, f)
    /\ UNCHANGED arith

CallSendCoins(from, to, amt, othOK, fault, enabled) ==
    Apply("SendCoins", from, to, amt,
          fault, enabled,
          Facade(SendCoins(I, F, from, to, amt, othOK, fault, enabled),
                 TRUE, from, to))

CallSendCoinsFromAccountToModule(senderAddr, recipientModule, amt, othOK, fault, enabled) ==
    Apply("SendCoinsFromAccountToModule", senderAddr, recipientModule, amt,
          fault, enabled,
          SendCoinsFromAccountToModule(I, F, senderAddr, recipientModule,
                                       amt, othOK, fault, enabled))

CallSendCoinsFromModuleToAccount(senderModule, recipientAddr, amt, othOK, fault, enabled) ==
    Apply("SendCoinsFromModuleToAccount", senderModule, recipientAddr, amt,
          fault, enabled,
          SendCoinsFromModuleToAccount(I, F, senderModule, recipientAddr,
                                       amt, othOK, fault, enabled))

CallSendCoinsFromModuleToModule(senderModule, recipientModule, amt, othOK, fault, enabled) ==
    Apply("SendCoinsFromModuleToModule", senderModule, recipientModule, amt,
          fault, enabled,
          SendCoinsFromModuleToModule(I, F, senderModule, recipientModule,
                                      amt, othOK, fault, enabled))

\* othOK only matters to coins that hold another denomination
OthInputs(amt) ==
    IF IsValid(amt) /\ AmountOf(amt, OtherDenom) > 0
    THEN BOOLEAN
    ELSE {TRUE}

Send ==
    \E from \in Addrs, to \in Addrs, amt \in CoinsInputs :
      \E othOK \in OthInputs(amt) :
        /\ CallSendCoins(from, to, amt, othOK, NoFault, AllSendEnabled)
        /\ UNCHANGED rt

AccountToModule ==
    \E senderAddr \in Addrs, recipientModule \in ModuleNames,
       amt \in FacadeCoinsInputs :
      \E othOK \in OthInputs(amt), enabled \in SendEnabledInputs :
        /\ CallSendCoinsFromAccountToModule(senderAddr, recipientModule,
                                            amt, othOK, NoFault, enabled)
        /\ UNCHANGED rt

ModuleToAccount ==
    \E senderModule \in ModuleNames, recipientAddr \in Addrs,
       amt \in FacadeCoinsInputs :
      \E othOK \in OthInputs(amt), enabled \in SendEnabledInputs :
        /\ CallSendCoinsFromModuleToAccount(senderModule, recipientAddr,
                                            amt, othOK, NoFault, enabled)
        /\ UNCHANGED rt

ModuleToModule ==
    \E senderModule \in ModuleNames, recipientModule \in ModuleNames,
       amt \in FacadeCoinsInputs :
      \E othOK \in OthInputs(amt), enabled \in SendEnabledInputs :
        /\ CallSendCoinsFromModuleToModule(senderModule, recipientModule,
                                           amt, othOK, NoFault, enabled)
        /\ UNCHANGED rt

Next == Send

Spec == Init /\ [][Next]_vars

----------------------------------------------------------------------------
(* Transfers between accounts other than the reserve *)

NonReserve == Addrs \ {Reserve}

UserSend ==
    \E from \in NonReserve, to \in NonReserve, amt \in CoinsInputs :
      \E othOK \in OthInputs(amt) :
        /\ CallSendCoins(from, to, amt, othOK, NoFault, AllSendEnabled)
        /\ UNCHANGED rt

NextUser == UserSend

SpecUser == Init /\ [][NextUser]_vars

----------------------------------------------------------------------------
(* The facades, with SendCoins called for accounts other than the reserve *)

FacadeUserSend ==
    \E from \in NonReserve, to \in NonReserve, amt \in FacadeCoinsInputs :
      \E othOK \in OthInputs(amt), enabled \in SendEnabledInputs :
        /\ CallSendCoins(from, to, amt, othOK, NoFault, enabled)
        /\ UNCHANGED rt

NextFacade ==
    FacadeUserSend \/ AccountToModule \/ ModuleToAccount \/ ModuleToModule

SpecFacade == Init /\ [][NextFacade]_vars

----------------------------------------------------------------------------
(* Transfers during which x/bank refuses one ledger call *)

FaultySend ==
    \E from \in NonReserve, to \in NonReserve, amt \in CoinsInputs,
       fault \in Faults :
      \E othOK \in OthInputs(amt) :
        /\ CallSendCoins(from, to, amt, othOK, fault, AllSendEnabled)
        /\ UNCHANGED rt

NextFault == UserSend \/ FaultySend

SpecFault == Init /\ [][NextFault]_vars

----------------------------------------------------------------------------
(* The fractional arithmetic on its own *)

\* balances and amounts in [0, C) and beyond
ArithInputs == 0..(2 * ConversionFactor + 1)

InitArith ==
    /\ I = [x \in Addrs |-> 0]
    /\ F = [x \in Addrs |-> 0]
    /\ last = NoRecord
    /\ rt = NoRoundTrip
    /\ arith \in {ArithCall("none", f, d, [panic |-> FALSE, bal |-> 0,
                                          flag |-> FALSE]) :
                    f \in ArithInputs, d \in ArithInputs}

CallSub ==
    /\ arith.op = "none"
    /\ arith' = ArithCall("subFromFractionalBalance", arith.f, arith.d,
                          subFromFractionalBalance(arith.f, arith.d))
    /\ UNCHANGED <<I, F, last, rt>>

CallAdd ==
    /\ arith.op = "none"
    /\ arith' = ArithCall("addToFractionalBalance", arith.f, arith.d,
                          addToFractionalBalance(arith.f, arith.d))
    /\ UNCHANGED <<I, F, last, rt>>

NextArith == CallSub \/ CallAdd

SpecArith == InitArith /\ [][NextArith]_vars

----------------------------------------------------------------------------
(* A transfer followed by the same transfer backwards *)

AnySend ==
    \E from \in Addrs, to \in Addrs, amt \in CoinsInputs :
      \E othOK \in OthInputs(amt) :
        /\ CallSendCoins(from, to, amt, othOK, NoFault, AllSendEnabled)
        /\ rt' = NoRoundTrip

RoundTripFirst ==
    \E A \in NonReserve, B \in NonReserve, amt \in ExtOnlyCoins :
        /\ A # B
        /\ CallSendCoins(A, B, amt, TRUE, NoFault, AllSendEnabled)
        /\ rt' = [phase |-> 1, A |-> A, B |-> B,
                  amount |-> AmountOf(amt, ExtendedCoinDenom),
                  preI |-> I, preF |-> F,
                  ok |-> last'.err = NoErr /\ ~last'.panic]

RoundTripSecond ==
    /\ rt.phase = 1
    /\ rt.ok
    /\ CallSendCoins(rt.B, rt.A, NewCoins(rt.amount, 0, 0), TRUE,
                     NoFault, AllSendEnabled)
    /\ rt' = [rt EXCEPT !.phase = 2,
                        !.ok = last'.err = NoErr /\ ~last'.panic]

NextRoundTrip == AnySend \/ RoundTripFirst \/ RoundTripSecond

SpecRoundTrip == Init /\ [][NextRoundTrip]_vars

----------------------------------------------------------------------------
(* Vocabulary of the properties *)

RECURSIVE SumOver(_, _)
SumOver(f, S) ==
    IF S = {}
    THEN 0
    ELSE LET x == CHOOSE y \in S : TRUE
         IN  f[x] + SumOver(f, S \ {x})

\* the true extended balance E(x) = I(x) * C + F(x)
E(bal, frac, x) == bal[x] * ConversionFactor + frac[x]

ExtendedOf(bal, frac) == [x \in Addrs |-> E(bal, frac, x)]

FracInRange(frac) == \A x \in Addrs : 0 <= frac[x] /\ frac[x] < ConversionFactor

ReserveCovers(bal, frac) ==
    bal[Reserve] * ConversionFactor >= SumOver(frac, NonReserve)

Section3(bal, frac) ==
    /\ FracInRange(frac)
    /\ frac[Reserve] = 0
    /\ ReserveCovers(bal, frac)

Called == last.op # "none"

Succeeded == Called /\ last.err = NoErr /\ ~last.panic

Failed == Called /\ last.err # NoErr

\* the last operation was SendCoins of extended coins only
ExtSend == last.op = "SendCoins" /\ last.coins \in ExtOnlyCoins

\* ... between two distinct accounts, neither of them the reserve
UserExtSend ==
    /\ ExtSend
    /\ last.from \in NonReserve
    /\ last.to \in NonReserve
    /\ last.from # last.to

LastAmount == AmountOf(last.coins, ExtendedCoinDenom)

LastFraction == LastAmount % ConversionFactor

LastBorrow == last.preF[last.from] < LastFraction

LastCarry ==
    last.preF[last.to] + LastFraction >= ConversionFactor

----------------------------------------------------------------------------
(* Properties *)

\* C1: every fractional balance stays in [0, C) after any sequence of
\* SendCoins calls, successful or failing, whatever the sender, recipient
\* and amount.
C1_FractionalRange == FracInRange(F)

\* a borrowing transfer has wrapped the sender's fractional balance
C1_Witness ==
    /\ ExtSend /\ Succeeded /\ LastBorrow
    /\ F[last.from] = last.preF[last.from] - LastFraction + ConversionFactor

\* C2: from a state satisfying the section-3 invariants, every committed
\* public operation leaves the reserve covering all fractional balances:
\* I(R) * C >= sum of F(A) over the accounts A other than R.
C2_ReserveCoverage ==
    (Succeeded /\ Section3(last.preI, last.preF)) => ReserveCovers(I, F)

\* C3 as stated: a successful SendCoins leaves the sum of E(A) over all
\* accounts, the reserve included, unchanged.
C3_SupplyAllAccounts ==
    (last.op = "SendCoins" /\ Succeeded)
        => SumOver(ExtendedOf(I, F), Addrs)
             = SumOver(ExtendedOf(last.preI, last.preF), Addrs)

\* C3 amended: a successful SendCoins leaves the total integer supply
\* unchanged, and between accounts other than the reserve it leaves the sum
\* of E(A) over the accounts other than the reserve unchanged.
C3_SupplyConserved ==
    (last.op = "SendCoins" /\ Succeeded)
        => /\ SumOver(I, Addrs) = SumOver(last.preI, Addrs)
           /\ (last.from \in NonReserve /\ last.to \in NonReserve)
                => SumOver(ExtendedOf(I, F), NonReserve)
                     = SumOver(ExtendedOf(last.preI, last.preF), NonReserve)

\* a successful transfer whose borrow went to the reserve
C3_Witness ==
    /\ UserExtSend /\ Succeeded /\ LastBorrow /\ ~LastCarry
    /\ I[Reserve] = last.preI[Reserve] + 1

\* C4: a successful transfer of a > 0 extended coins between distinct
\* accounts other than the reserve lowers E(from) by exactly a and raises
\* E(to) by exactly a.
C4_ExactTransfer ==
    (UserExtSend /\ Succeeded)
        => /\ E(I, F, last.from)
                = E(last.preI, last.preF, last.from) - LastAmount
           /\ E(I, F, last.to)
                = E(last.preI, last.preF, last.to) + LastAmount

\* a successful transfer in the borrow-and-carry case
C4_Witness == UserExtSend /\ Succeeded /\ LastBorrow /\ LastCarry

\* C5: from an empty reserve and zero fractional balances, transfers between
\* accounts other than the reserve never make the carry from the reserve
\* fail: no operation panics and I(R) >= 0.
C5_ReserveSolvent == ~last.panic /\ I[Reserve] >= 0

\* the reserve has paid a carry and is empty again
C5_Witness ==
    /\ UserExtSend /\ Succeeded /\ ~LastBorrow /\ LastCarry
    /\ last.preI[Reserve] = 1 /\ I[Reserve] = 0

\* C6: whenever SendCoins returns an error every I(A) and F(A) has its value
\* at entry.
C6_AtomicOnError ==
    (last.op = "SendCoins" /\ Failed) => (I = last.preI /\ F = last.preF)

\* C7: SendCoins(x, x, a extended coins) succeeds and changes no I(A), no
\* F(A), and issues no ledger move and no fractional write.
C7_SelfTransferNoOp ==
    (ExtSend /\ last.from = last.to)
        => /\ Succeeded
           /\ I = last.preI /\ F = last.preF
           /\ last.trace = <<>>

\* a self-transfer of more than the account holds
C7_Witness ==
    /\ ExtSend /\ last.from = last.to
    /\ LastFraction > 0
    /\ E(last.preI, last.preF, last.from) < LastAmount

\* C8: a successful transfer A -> B followed by a successful transfer of the
\* same amount B -> A restores E(A) and E(B).
C8_RoundTrip ==
    (rt.phase = 2 /\ rt.ok)
        => /\ E(I, F, rt.A) = E(rt.preI, rt.preF, rt.A)
           /\ E(I, F, rt.B) = E(rt.preI, rt.preF, rt.B)

\* a round trip whose first leg carried from the reserve
C8_Witness ==
    /\ rt.phase = 2 /\ rt.ok
    /\ rt.preF[rt.B] + (rt.amount % ConversionFactor) >= ConversionFactor
    /\ rt.preF[rt.A] >= rt.amount % ConversionFactor

\* C9: with invariants 1 and 3 holding, a transfer of a > 0 extended coins
\* between distinct accounts other than the reserve succeeds iff
\* I(from) * C + F(from) >= a, and otherwise fails with InsufficientFunds.
C9_SufficiencyExact ==
    (/\ UserExtSend
     /\ FracInRange(last.preF)
     /\ ReserveCovers(last.preI, last.preF))
        => /\ Succeeded <=> E(last.preI, last.preF, last.from) >= LastAmount
           /\ ~Succeeded
                => (last.err.kind = "ErrInsufficientFunds" /\ ~last.panic)

\* refused although the integer balance covers the whole units: F(from) is
\* below the fraction and I(from) below floor(a / C) + 1
C9_Witness ==
    /\ UserExtSend /\ Failed
    /\ LastBorrow
    /\ last.preI[last.from] = LastAmount \div ConversionFactor
    /\ last.preI[last.from] > 0

\* C10: from a state with F(R) = 0, every committed public operation leaves
\* F(R) = 0.
C10_ReserveNoFraction ==
    (Succeeded /\ last.preF[Reserve] = 0) => F[Reserve] = 0

FacadeOps ==
    {"SendCoinsFromAccountToModule", "SendCoinsFromModuleToAccount",
     "SendCoinsFromModuleToModule"}

\* the last operation was a facade that went on to call SendCoins
FacadeDelegated == last.op \in FacadeOps /\ last.delegated

\* C11: no call of a module facade, whatever its arguments, reaches the
\* SendCoins it delegates to with the reserve as the sender address or as
\* the recipient address.
C11_ReserveNeverCounterparty ==
    FacadeDelegated => (last.sendFrom # Reserve /\ last.sendTo # Reserve)

\* the pass-through part of the coins of the last SendCoins
LastPassthrough ==
    IF LastAmount > 0
    THEN SubCoin(last.coins, ExtendedCoinDenom)
    ELSE last.coins

\* the number of ledger calls the pass-through part takes
LastPassCalls == IF IsAllPositive(LastPassthrough) THEN 1 ELSE 0

\* the last SendCoins returned the error of a ledger move of its extended
\* transfer: the pass-through part, if any, went through
ExtMoveFailed ==
    /\ last.op = "SendCoins" /\ Failed /\ ~last.panic
    /\ IsValid(last.coins)
    /\ Len(last.trace) > LastPassCalls

\* ... and x/bank failed that move for lack of funds
ExtMoveInsufficient == ExtMoveFailed /\ last.fault = NoFault

\* the sender's extended balance at entry to the extended transfer: its
\* balance at entry to SendCoins less the integer coins passed through
EntryBalance ==
    E(last.preI, last.preF, last.from)
    - AmountOf(LastPassthrough, IntegerCoinDenom) * ConversionFactor

\* C12: when the direct move or the borrow move of the extended transfer
\* fails with ErrInsufficientFunds, SendCoins returns ErrInsufficientFunds
\* naming, in aatom, the sender's balance I(from) * C + F(from) at entry to
\* the extended transfer and the requested extended amount a.
C12_RewriteReportsEntryBalance ==
    ExtMoveInsufficient
        => last.err = ErrInsufficientFunds(ExtendedCoinDenom, EntryBalance,
                                           LastAmount)

\* the last entry of the log of the last operation
LastCall == last.trace[Len(last.trace)]

\* x/bank refused a ledger call of the last SendCoins with ErrOther
LedgerRefused ==
    /\ last.op = "SendCoins"
    /\ last.fault # NoFault
    /\ last.trace # <<>>
    /\ LastCall.site = last.fault

\* x/bank failed the pass-through call of the last SendCoins for lack of
\* funds
PassInsufficient ==
    /\ last.op = "SendCoins" /\ Failed
    /\ last.fault # "passthrough"
    /\ last.trace # <<>>
    /\ LastCall.site = "passthrough"

\* the errors x/bank gives for a pass-through call it fails for lack of funds
PassErrors ==
    { ErrInsufficientFunds(OtherDenom, 0, 1),
      ErrInsufficientFunds(IntegerCoinDenom, last.preI[last.from],
                           AmountOf(LastPassthrough, IntegerCoinDenom)) }

\* C13 as stated: when a ledger call of SendCoins fails with an error that
\* is not ErrInsufficientFunds, SendCoins returns that error unchanged; and
\* the ErrInsufficientFunds of the pass-through call is returned as x/bank
\* gave it.
C13_ErrorPassThrough ==
    /\ LedgerRefused => (last.err = ErrOther /\ ~last.panic)
    /\ PassInsufficient => last.err \in PassErrors

\* C13 amended: an error that is not ErrInsufficientFunds is returned
\* unchanged when the pass-through, the direct or the borrow call fails with
\* it; when the carry call out of the reserve fails SendCoins panics and
\* returns no error; the ErrInsufficientFunds of the pass-through call is
\* returned as x/bank gave it.
C13_ErrorPassThroughExceptCarry ==
    /\ (LedgerRefused /\ last.fault # "carry")
          => (last.err = ErrOther /\ ~last.panic)
    /\ (LedgerRefused /\ last.fault = "carry") => last.panic
    /\ PassInsufficient => last.err \in PassErrors

\* the borrow call is refused after the direct move went through
C13_Witness ==
    /\ LedgerRefused /\ last.fault = "borrow"
    /\ Len(last.trace) = 2
    /\ last.trace[1].site = "direct"

\* the last operation was turned away: no SendCoins, no ledger call, no
\* store write, no event, and every balance as at entry
NothingDone ==
    /\ ~last.delegated
    /\ last.trace = <<>> /\ last.events = <<>>
    /\ I = last.preI /\ F = last.preF

RefusedUnauthorized == last.err = ErrUnauthorized /\ ~last.panic /\ NothingDone

\* C14: SendCoinsFromAccountToModule and SendCoinsFromModuleToModule with
\* the reserve's module name as recipientModule, the named module accounts
\* existing, return ErrUnauthorized for every sender and every coins,
\* without calling SendCoins and without changing any I(A) or F(A).
C14_DepositRefused ==
    (\/ /\ last.op = "SendCoinsFromAccountToModule"
        /\ last.to = ModuleName
     \/ /\ last.op = "SendCoinsFromModuleToModule"
        /\ last.to = ModuleName
        /\ GetModuleAddress(last.from) # NilAddr)
        => RefusedUnauthorized

\* module "evm" holds a unit and tries to pay valid coins into the reserve
C14_Witness ==
    /\ last.op = "SendCoinsFromModuleToModule"
    /\ last.from = "evm" /\ last.to = ModuleName
    /\ IsValid(last.coins)
    /\ last.preI[GetModuleAddress("evm")] >= 1
    /\ last.err = ErrUnauthorized

\* C15: SendCoinsFromModuleToAccount with the reserve's module name as
\* senderModule returns ErrUnauthorized for every recipient and every coins,
\* without calling SendCoins and without changing any I(A) or F(A).
C15_WithdrawalRefused ==
    (last.op = "SendCoinsFromModuleToAccount" /\ last.from = ModuleName)
        => RefusedUnauthorized

\* the reserve holds a unit and is asked to pay a recipient that is not
\* blocked
C15_Witness ==
    /\ last.op = "SendCoinsFromModuleToAccount"
    /\ last.from = ModuleName
    /\ ~BlockedAddr(last.to)
    /\ IsValid(last.coins)
    /\ last.preI[Reserve] >= 1
    /\ last.err = ErrUnauthorized

\* C16: SendCoinsFromModuleToAccount with an existing senderModule other
\* than the reserve and a recipient in x/bank's blocked addresses returns
\* ErrUnauthorized without calling SendCoins and without changing any I(A)
\* or F(A).
C16_BlockedRecipientRefused ==
    (/\ last.op = "SendCoinsFromModuleToAccount"
     /\ GetModuleAddress(last.from) # NilAddr
     /\ last.from # ModuleName
     /\ BlockedAddr(last.to))
        => RefusedUnauthorized

\* module "evm" holds a unit and tries to pay valid coins to the blocked
\* reserve address
C16_Witness ==
    /\ last.op = "SendCoinsFromModuleToAccount"
    /\ last.from = "evm" /\ last.to = Reserve
    /\ IsValid(last.coins)
    /\ last.preI[GetModuleAddress("evm")] >= 1
    /\ last.err = ErrUnauthorized

\* a module the last facade call names has no account
MissingModule ==
    \/ /\ last.op = "SendCoinsFromAccountToModule"
       /\ GetModuleAddress(last.to) = NilAddr
    \/ /\ last.op = "SendCoinsFromModuleToAccount"
       /\ GetModuleAddress(last.from) = NilAddr
    \/ /\ last.op = "SendCoinsFromModuleToModule"
       /\ \/ GetModuleAddress(last.from) = NilAddr
          \/ GetModuleAddress(last.to) = NilAddr

\* C17: a facade called with a module name that has no account panics with
\* ErrUnknownAddress before any state is changed, also when an
\* ErrUnauthorized check of the same call would refuse it.
C17_MissingModuleFatal ==
    MissingModule
        => /\ last.panic /\ last.err = ErrUnknownAddress
           /\ NothingDone

\* a missing sender module together with a deposit into the reserve, or
\* with a blocked recipient
C17_Witness ==
    /\ last.panic
    /\ \/ /\ last.op = "SendCoinsFromModuleToModule"
          /\ GetModuleAddress(last.from) = NilAddr
          /\ last.to = ModuleName
       \/ /\ last.op = "SendCoinsFromModuleToAccount"
          /\ GetModuleAddress(last.from) = NilAddr
          /\ BlockedAddr(last.to)

\* the integer coins of the last SendCoins
LastInteger == AmountOf(last.coins, IntegerCoinDenom)

EventTypes == <<"transfer", "coin_spent", "coin_received">>

\* C18: a successful SendCoins(from, to, coins) with a aatom and n uatom in
\* coins emits the transfer, coin_spent and coin_received events exactly
\* when a + n > 0, each with the amount a + n * C of aatom; with a = 0 and
\* n = 0 it emits no event.
C18_EventEmission ==
    (last.op = "SendCoins" /\ Succeeded)
        => IF LastAmount + LastInteger > 0
           THEN /\ Len(last.events) = 3
                /\ \A k \in 1..3 :
                     /\ last.events[k].type = EventTypes[k]
                     /\ last.events[k].amount
                          = <<Coin(ExtendedCoinDenom,
                                   LastAmount
                                   + LastInteger * ConversionFactor)>>
                /\ last.events[1].sender = last.from
                /\ last.events[1].recipient = last.to
                /\ last.events[2].sender = last.from
                /\ last.events[3].recipient = last.to
           ELSE last.events = <<>>

\* extended and integer coins sent together
C18_Witness ==
    /\ last.op = "SendCoins" /\ Succeeded
    /\ last.from # last.to
    /\ LastAmount > 0 /\ LastInteger > 0
    /\ last.events # <<>>

\* the store writes among the entries of the log of the last operation
LastWrites == {k \in 1..Len(last.trace) : last.trace[k].site = "store"}

\* C19: SendCoins emits no event on a call that returns an error, and on a
\* successful call it emits them after every ledger move and both
\* fractional-balance writes of that call.
C19_EventsLast ==
    /\ (last.op = "SendCoins" /\ Failed) => last.events = <<>>
    /\ (last.op = "SendCoins" /\ Succeeded)
          => /\ \A k \in 1..Len(last.events) :
                  last.events[k].after = Len(last.trace)
             /\ (LastAmount > 0 /\ last.from # last.to)
                  => Cardinality(LastWrites) = 2

\* events of a transfer with a pass-through call, a ledger move and the two
\* writes behind it
C19_Witness ==
    /\ last.op = "SendCoins" /\ Succeeded
    /\ last.events # <<>>
    /\ Len(last.trace) >= 4
    /\ last.trace[1].site = "passthrough"
    /\ LastCall.site = "store"

\* C20: SendCoins called with coins that are not well-formed returns
\* ErrInvalidCoins without a ledger call, without a fractional-balance write
\* and without an event.
C20_InvalidCoinsRejected ==
    (last.op = "SendCoins" /\ last.coins \in MalformedCoins)
        => /\ last.err = ErrInvalidCoins /\ ~last.panic
           /\ last.trace = <<>> /\ last.events = <<>>
           /\ I = last.preI /\ F = last.preF

\* unsorted coins of positive amounts the sender holds
C20_Witness ==
    /\ last.op = "SendCoins"
    /\ last.coins = <<Coin(IntegerCoinDenom, 1), Coin(ExtendedCoinDenom, 1)>>
    /\ last.from # last.to
    /\ last.preI[last.from] >= 1
    /\ last.err = ErrInvalidCoins

\* the places of the log entries of the extended transfer
ExtSites == {"direct", "borrow", "carry", "store"}

\* the last SendCoins was given well-formed coins with a pass-through part
HasPassthrough ==
    /\ last.op = "SendCoins"
    /\ IsValid(last.coins)
    /\ LastPassCalls = 1

\* x/bank cannot but fail the pass-through call: it is refused, or the
\* sender lacks the integer coins
PassMustFail ==
    \/ last.fault = "passthrough"
    \/ last.preI[last.from] < LastInteger

\* the pass-through call of the last SendCoins failed
PassFailed ==
    /\ HasPassthrough /\ Failed
    /\ LastCall.site = "passthrough"

\* C21: when the coins hold denominations other than aatom, SendCoins calls
\* k.bk.SendCoins(from, to, rest) before any step of the extended transfer;
\* when that call fails its error is returned and no integer move, no
\* reserve move and no fractional write of the extended transfer is made.
C21_PassthroughFirst ==
    /\ HasPassthrough
          => /\ last.trace # <<>>
             /\ last.trace[1].site = "passthrough"
             /\ last.trace[1].coins = LastPassthrough
             /\ \A k \in 2..Len(last.trace) : last.trace[k].site \in ExtSites
    /\ (HasPassthrough /\ PassMustFail) => PassFailed
    /\ PassFailed
          => /\ last.err \in PassErrors \cup {ErrOther}
             /\ ~last.panic
             /\ Len(last.trace) = 1
             /\ I = last.preI /\ F = last.preF

\* the pass-through call fails although the sender's balance covers the
\* extended amount
C21_Witness ==
    /\ PassFailed
    /\ last.from # last.to
    /\ LastAmount > 0
    /\ E(last.preI, last.preF, last.from) >= LastAmount

\* the outcome of the last operation, had it been called on the same
\* balances under the send-enabled configuration enabled
OutcomeUnder(othOK, enabled) ==
    CASE last.op = "SendCoins" ->
           SendCoins(last.preI, last.preF, last.from, last.to, last.coins,
                     othOK, last.fault, enabled)
      [] last.op = "SendCoinsFromAccountToModule" ->
           SendCoinsFromAccountToModule(last.preI, last.preF, last.from,
                                        last.to, last.coins, othOK,
                                        last.fault, enabled).out
      [] last.op = "SendCoinsFromModuleToAccount" ->
           SendCoinsFromModuleToAccount(last.preI, last.preF, last.from,
                                        last.to, last.coins, othOK,
                                        last.fault, enabled).out
      [] last.op = "SendCoinsFromModuleToModule" ->
           SendCoinsFromModuleToModule(last.preI, last.preF, last.from,
                                       last.to, last.coins, othOK,
                                       last.fault, enabled).out

\* the outcome and the balances of the last operation are those of out
OutcomeIs(out) ==
    /\ last.err = out.err /\ last.panic = out.panic
    /\ last.trace = out.trace /\ last.events = out.events
    /\ I = out.I /\ F = out.F

\* C22: the outcome and the state effect of SendCoins and of the facades do
\* not depend on whether sending is enabled for the denominations of the
\* coins: under every send-enabled configuration the call gives the outcome
\* it gave.
C22_NoSendEnabledCheck ==
    Called
        => \E othOK \in BOOLEAN :
             \A enabled \in SendEnabledConfigs :
               OutcomeIs(OutcomeUnder(othOK, enabled))

\* coins of two denominations moved by a facade while sending is disabled
\* for every denomination
C22_Witness ==
    /\ last.op \in FacadeOps /\ Succeeded
    /\ last.enabled = {}
    /\ LastAmount > 0 /\ LastInteger > 0
    /\ I # last.preI

\* the entries of the log of the last operation made at a place
LastCallsAt(site) == {k \in 1..Len(last.trace) : last.trace[k].site = site}

\* C23: a successful extended transfer between distinct accounts other than
\* the reserve, with borrow = F(from) < a mod C and carry = F(to) + a mod C
\* >= C, changes I(R) by +1 when borrow and not carry, by -1 when carry and
\* not borrow and by 0 otherwise; the borrow move into the reserve and the
\* carry move out of it never both occur in one transfer.
C23_ReserveTraffic ==
    /\ (UserExtSend /\ Succeeded)
          => /\ I[Reserve] - last.preI[Reserve]
                  = (IF LastBorrow /\ ~LastCarry THEN 1
                     ELSE IF LastCarry /\ ~LastBorrow THEN -1
                     ELSE 0)
             /\ LastCallsAt("borrow") # {} <=> (LastBorrow /\ ~LastCarry)
             /\ LastCallsAt("carry") # {} <=> (LastCarry /\ ~LastBorrow)
    /\ last.op = "SendCoins"
          => ~(LastCallsAt("borrow") # {} /\ LastCallsAt("carry") # {})

\* borrow and carry cancel while the reserve holds a unit: no reserve move
C23_Witness ==
    /\ UserExtSend /\ Succeeded
    /\ LastBorrow /\ LastCarry
    /\ last.preI[Reserve] >= 1
    /\ I[Reserve] = last.preI[Reserve]

\* floor(a / C) of the last transfer
LastWhole == LastAmount \div ConversionFactor

\* the number of integer units the direct move has to carry
LastDirect == LastWhole + (IF LastBorrow /\ LastCarry THEN 1 ELSE 0)

\* C24: a = floor(a / C) * C + (a mod C), and in a successful extended
\* transfer between distinct accounts other than the reserve the sender is
\* debited floor(a / C) + (1 if borrow) integer units, the recipient is
\* credited floor(a / C) + (1 if carry), and the direct move is of
\* floor(a / C) + 1 units exactly in the borrow-and-carry case and of
\* floor(a / C) units otherwise.
C24_Decomposition ==
    (UserExtSend /\ Succeeded)
        => /\ LastAmount = LastWhole * ConversionFactor + LastFraction
           /\ 0 <= LastFraction /\ LastFraction < ConversionFactor
           /\ last.preI[last.from] - I[last.from]
                = LastWhole + (IF LastBorrow THEN 1 ELSE 0)
           /\ I[last.to] - last.preI[last.to]
                = LastWhole + (IF LastCarry THEN 1 ELSE 0)
           /\ IF LastDirect > 0
              THEN /\ Cardinality(LastCallsAt("direct")) = 1
                   /\ \A k \in LastCallsAt("direct") :
                        last.trace[k].coins = NewCoins(0, 0, LastDirect)
              ELSE LastCallsAt("direct") = {}

\* a borrow into the reserve on top of a direct move of whole units
C24_Witness ==
    /\ UserExtSend /\ Succeeded
    /\ LastBorrow /\ ~LastCarry
    /\ LastWhole >= 1
    /\ last.preI[last.from] - I[last.from] = LastWhole + 1

\* the places of the ledger moves of the extended transfer
MoveSites == {"direct", "borrow", "carry"}

\* C25: when a direct from-to move and a reserve move, borrow or carry, both
\* occur in one transfer the direct move is issued first; the writes of
\* F(from) and F(to) are issued only after all ledger moves of the transfer
\* have succeeded.
C25_ExtendedOrder ==
    last.op = "SendCoins"
        => /\ \A j \in LastCallsAt("direct") :
                \A k \in LastCallsAt("borrow") \cup LastCallsAt("carry") :
                  j < k
           /\ \A j \in 1..Len(last.trace) :
                last.trace[j].site \in MoveSites
                  => \A k \in LastCallsAt("store") : j < k
           /\ LastCallsAt("store") # {}
                => /\ Succeeded
                   /\ Cardinality(LastCallsAt("store")) = 2
           /\ (Failed \/ last.panic) => F = last.preF

\* a direct move, then the borrow move, then the two writes
C25_Witness ==
    /\ last.op = "SendCoins" /\ Succeeded
    /\ Len(last.trace) = 4
    /\ last.trace[1].site = "direct"
    /\ last.trace[2].site = "borrow"
    /\ last.trace[3].site = "store"
    /\ last.trace[4].site = "store"

\* the arguments of the arithmetic call lie in [0, C)
ArithInRange ==
    /\ 0 <= arith.f /\ arith.f < ConversionFactor
    /\ 0 <= arith.d /\ arith.d < ConversionFactor

\* C26: for all f and d in [0, C), subFromFractionalBalance(f, d) returns
\* (f - d, false) when f >= d and (f - d + C, true) otherwise, and the
\* balance it returns lies in [0, C).
C26_FractionalSub ==
    (arith.op = "subFromFractionalBalance" /\ ArithInRange)
        => /\ ~arith.panic
           /\ arith.f >= arith.d
                => (arith.bal = arith.f - arith.d /\ ~arith.flag)
           /\ arith.f < arith.d
                => /\ arith.bal = arith.f - arith.d + ConversionFactor
                   /\ arith.flag
           /\ 0 <= arith.bal /\ arith.bal < ConversionFactor

\* the largest amount subtracted from an empty balance
C26_Witness ==
    /\ arith.op = "subFromFractionalBalance"
    /\ arith.f = 0 /\ arith.d = ConversionFactor - 1
    /\ arith.bal = 1 /\ arith.flag

\* C27: for all f and d in [0, C), addToFractionalBalance(f, d) returns
\* (f + d, false) when f + d < C and (f + d - C, true) otherwise, and the
\* balance it returns lies in [0, C).
C27_FractionalAdd ==
    (arith.op = "addToFractionalBalance" /\ ArithInRange)
        => /\ ~arith.panic
           /\ arith.f + arith.d < ConversionFactor
                => (arith.bal = arith.f + arith.d /\ ~arith.flag)
           /\ arith.f + arith.d >= ConversionFactor
                => /\ arith.bal = arith.f + arith.d - ConversionFactor
                   /\ arith.flag
           /\ 0 <= arith.bal /\ arith.bal < ConversionFactor

\* the sum is exactly C
C27_Witness ==
    /\ arith.op = "addToFractionalBalance"
    /\ ArithInRange
    /\ arith.f + arith.d = ConversionFactor
    /\ arith.bal = 0 /\ arith.flag

\* C28: subFromFractionalBalance and addToFractionalBalance panic, returning
\* nothing, for every input with f >= C or d >= C.
C28_ArithGuard ==
    (/\ arith.op \in {"subFromFractionalBalance", "addToFractionalBalance"}
     /\ (arith.f >= ConversionFactor \/ arith.d >= ConversionFactor))
        => arith.panic

\* only the amount is out of range, by the least possible
C28_Witness ==
    /\ arith.op = "subFromFractionalBalance"
    /\ arith.f < ConversionFactor
    /\ arith.d = ConversionFactor
    /\ arith.panic

\* the last facade call passes the facade's guards: the modules it names
\* have accounts, the reserve is not the receiving module or the module
\* paying an account, the account paid by a module is not blocked
GuardsPass ==
    CASE last.op = "SendCoinsFromAccountToModule" ->
           /\ GetModuleAddress(last.to) # NilAddr
           /\ last.to # ModuleName
      [] last.op = "SendCoinsFromModuleToAccount" ->
           /\ GetModuleAddress(last.from) # NilAddr
           /\ last.from # ModuleName
           /\ ~BlockedAddr(last.to)
      [] last.op = "SendCoinsFromModuleToModule" ->
           /\ GetModuleAddress(last.from) # NilAddr
           /\ GetModuleAddress(last.to) # NilAddr
           /\ last.to # ModuleName
      [] OTHER -> FALSE

\* the addresses the arguments of the last facade call stand for
ResolvedFrom ==
    IF last.op = "SendCoinsFromAccountToModule"
    THEN last.from
    ELSE GetModuleAddress(last.from)

ResolvedTo ==
    IF last.op = "SendCoinsFromModuleToAccount"
    THEN last.to
    ELSE GetModuleAddress(last.to)

\* C29: a facade call that passes its guards has the result, the effect on
\* every I(A) and F(A) and the events of SendCoins(senderAddr, recipientAddr,
\* coins) called on the same balances, with the module names resolved to
\* their addresses.
C29_FacadeThinWrapper ==
    (last.op \in FacadeOps /\ GuardsPass)
        => /\ last.delegated
           /\ last.sendFrom = ResolvedFrom /\ last.sendTo = ResolvedTo
           /\ \E othOK \in BOOLEAN :
                OutcomeIs(SendCoins(last.preI, last.preF, ResolvedFrom,
                                    ResolvedTo, last.coins, othOK,
                                    last.fault, last.enabled))

\* an account pays extended coins to module "evm" and balances change
C29_Witness ==
    /\ last.op = "SendCoinsFromAccountToModule"
    /\ GuardsPass /\ Succeeded
    /\ ResolvedFrom # ResolvedTo
    /\ LastAmount > 0
    /\ F # last.preF
    /\ last.events # <<>>

\* I(R) * C less the fractional balances of the other accounts
Backing(bal, frac) ==
    bal[Reserve] * ConversionFactor - SumOver(frac, NonReserve)

\* C30: a successful extended transfer between two distinct accounts other
\* than the reserve leaves I(R) * C - sum of F(A) over the accounts A other
\* than R unchanged; from I(R) = 0 and all F = 0, I(R) * C equals the sum of
\* the fractional balances after any sequence of such transfers.
C30_ExactBacking ==
    /\ (UserExtSend /\ Succeeded)
          => /\ Backing(I, F) = Backing(last.preI, last.preF)
             /\ \A bal \in [Addrs -> 0..MaxBal],
                   frac \in [Addrs -> 0..(ConversionFactor - 1)] :
                   LET out == sendExtendedCoins(bal, frac, last.from,
                                                last.to, LastAmount, NoFault)
                   IN  (out.err = NoErr /\ ~out.panic)
                          => Backing(out.I, out.F) = Backing(bal, frac)
    /\ Backing(I, F) = 0

\* a carry empties the reserve as the fractional balances fall back to 0
C30_Witness ==
    /\ UserExtSend /\ Succeeded
    /\ last.preI[Reserve] = 1
    /\ SumOver(last.preF, NonReserve) = ConversionFactor
    /\ I[Reserve] = 0
    /\ SumOver(F, NonReserve) = 0

\* C31: whenever SendCoins returns an error or ends in the panic of the
\* failed carry move, no fractional balance has been written during the
\* call: the log holds no SetFractionalBalance and every F(A) is as at
\* entry, whatever the ledger moves already made.
C31_NoWriteOnFailure ==
    (last.op = "SendCoins" /\ (Failed \/ last.panic))
        => /\ LastWrites = {}
           /\ F = last.preF

\* the carry move failed after the direct move was made: the integer
\* balances have changed, the fractional balances have not
C31_Witness ==
    /\ last.op = "SendCoins" /\ last.panic
    /\ LastCallsAt("carry") # {}
    /\ LastCallsAt("direct") # {}
    /\ LastFraction > 0
    /\ I # last.preI
    /\ F = last.preF

\* the accounts a call of SendCoins may move integer coins of, and those it
\* may write the fractional balance of
IntegerFrame == {last.from, last.to, Reserve}

FractionalFrame == {last.from, last.to}

\* C32: SendCoins(from, to, coins), successful or not, changes the integer
\* balance of no account other than from, to and the reserve, and the
\* fractional balance of no account other than from and to; every ledger
\* move it issues is between accounts of the first set and every
\* fractional-balance write is for an account of the second.
C32_Frame ==
    last.op = "SendCoins"
        => /\ \A x \in Addrs \ IntegerFrame : I[x] = last.preI[x]
           /\ \A x \in Addrs \ FractionalFrame : F[x] = last.preF[x]
           /\ \A k \in 1..Len(last.trace) :
                IF last.trace[k].site = "store"
                THEN last.trace[k].from \in FractionalFrame
                ELSE /\ last.trace[k].from \in IntegerFrame
                     /\ last.trace[k].to \in IntegerFrame

\* a transfer between two accounts other than the reserve whose carry was
\* paid by the reserve: three integer balances and two fractional balances
\* have changed, the reserve's fractional balance has not
C32_Witness ==
    /\ UserExtSend /\ Succeeded
    /\ \A x \in Addrs : I[x] # last.preI[x]
    /\ F[last.from] # last.preF[last.from]
    /\ F[last.to] # last.preF[last.to]
    /\ F[Reserve] = last.preF[Reserve]

\* SendCoins returned the InsufficientFunds error rewritten in aatom
RewrittenInsufficient ==
    /\ last.op = "SendCoins"
    /\ last.err.kind = "ErrInsufficientFunds"
    /\ last.err.denom = ExtendedCoinDenom

\* C33: whenever SendCoins returns the rewritten InsufficientFunds error,
\* from the direct move or from the borrow move, the extended balance of the
\* sender it reports is strictly smaller than the requested amount it
\* reports, which is the extended amount a of the call.
C33_RewriteConsistent ==
    RewrittenInsufficient
        => /\ last.err.requested = LastAmount
           /\ last.err.spendable = GetBalance(I, F, last.from)
           /\ last.err.spendable < last.err.requested

\* the borrow move failed after the direct move: the balance reported is the
\* sender's fractional balance, below the fraction of the amount
C33_Witness ==
    /\ RewrittenInsufficient
    /\ LastCallsAt("direct") # {} /\ LastCallsAt("borrow") # {}
    /\ last.err.spendable = F[last.from]
    /\ last.err.spendable < LastFraction

\* C34: SendCoins(x, x, a extended coins) succeeds for every a > 0, also
\* when I(x) * C + F(x) < a, changes no balance, and still emits the
\* transfer events with sender x, recipient x and amount a.
C34_SelfTransferUnchecked ==
    (ExtSend /\ last.from = last.to)
        => /\ Succeeded
           /\ I = last.preI /\ F = last.preF
           /\ last.trace = <<>>
           /\ Len(last.events) = 3
           /\ \A k \in 1..3 :
                /\ last.events[k].type = EventTypes[k]
                /\ last.events[k].amount
                     = <<Coin(ExtendedCoinDenom, LastAmount)>>
                /\ last.events[k].sender \in {last.from, ""}
                /\ last.events[k].recipient \in {last.from, ""}

\* an account with no coins at all has sent itself the largest amount, and
\* the three events were emitted
C34_Witness ==
    /\ ExtSend /\ last.from = last.to
    /\ E(last.preI, last.preF, last.from) = 0
    /\ LastAmount = MaxExtAmount
    /\ Len(last.events) = 3
    /\ last.events[1].amount = <<Coin(ExtendedCoinDenom, MaxExtAmount)>>

\* C35: for distinct accounts A and B other than the reserve, a successful
\* SendCoins(A, B, a extended coins) followed by a successful
\* SendCoins(B, A, a extended coins) restores I(A), F(A), I(B), F(B) and
\* I(R) each to its value before the first transfer.
C35_RoundTripState ==
    (rt.phase = 2 /\ rt.ok)
        => /\ I[rt.A] = rt.preI[rt.A] /\ F[rt.A] = rt.preF[rt.A]
           /\ I[rt.B] = rt.preI[rt.B] /\ F[rt.B] = rt.preF[rt.B]
           /\ I[Reserve] = rt.preI[Reserve]

\* a round trip whose first leg paid a borrow into the reserve: between the
\* legs the reserve held one unit more and both fractional balances differed
C35_Witness ==
    /\ rt.phase = 2 /\ rt.ok
    /\ last.preI[Reserve] = rt.preI[Reserve] + 1
    /\ last.preF[rt.A] # rt.preF[rt.A]
    /\ last.preF[rt.B] # rt.preF[rt.B]
    /\ I[Reserve] = rt.preI[Reserve]

\* the amount of aatom a SendCoins of the last call's coins stands for
LastTotal == LastInteger * ConversionFactor + LastAmount

\* C36: for distinct accounts from and to other than the reserve, a
\* successful SendCoins whose coins hold n uatom and a aatom lowers E(from)
\* by exactly n * C + a and raises E(to) by exactly n * C + a, and that is
\* the amount carried by each event it emits.
C36_EmittedMatchesMoved ==
    (/\ last.op = "SendCoins" /\ Succeeded
     /\ last.from \in NonReserve /\ last.to \in NonReserve
     /\ last.from # last.to)
        => /\ E(I, F, last.from)
                = E(last.preI, last.preF, last.from) - LastTotal
           /\ E(I, F, last.to)
                = E(last.preI, last.preF, last.to) + LastTotal
           /\ LastTotal > 0 => last.events # <<>>
           /\ \A k \in 1..Len(last.events) :
                last.events[k].amount
                  = <<Coin(ExtendedCoinDenom, LastTotal)>>

\* integer coins passed through and extended coins moved by the engine in
\* one call, the events carrying the sum
C36_Witness ==
    /\ last.op = "SendCoins" /\ Succeeded
    /\ last.from \in NonReserve /\ last.to \in NonReserve
    /\ last.from # last.to
    /\ LastInteger > 0 /\ LastFraction > 0
    /\ LastPassCalls = 1 /\ LastWrites # {}
    /\ E(I, F, last.to) = E(last.preI, last.preF, last.to) + LastTotal
    /\ last.events[1].amount = <<Coin(ExtendedCoinDenom, LastTotal)>>

\* the last call panicked in the guard of subFromFractionalBalance or
\* addToFractionalBalance: a panic with no ledger call made, the panic of
\* the failed carry move coming after that move
ArithGuardPanic ==
    /\ last.op = "SendCoins"
    /\ last.panic
    /\ LastCallsAt("carry") = {}

\* C37: in a state where every F(A) lies in [0, C), no SendCoins, for any
\* sender, recipient and extended amount a > 0, panics in the guard of
\* subFromFractionalBalance or addToFractionalBalance: the amount passed to
\* them is a mod C.
C37_GuardsUnreachable ==
    /\ (last.op = "SendCoins" /\ FracInRange(last.preF)) => ~ArithGuardPanic
    /\ FracInRange(F)
          => \A from \in Addrs, to \in Addrs, a \in 1..(2 * MaxExtAmount) :
               LET out == sendExtendedCoins(I, F, from, to, a, NoFault)
               IN  out.panic => out.trace # <<>>

\* a transfer of more than C extended coins with a fraction went through the
\* arithmetic, which returned a borrow
C37_Witness ==
    /\ UserExtSend /\ Succeeded
    /\ FracInRange(last.preF)
    /\ LastAmount > ConversionFactor /\ LastFraction > 0
    /\ LastBorrow
    /\ LastWrites # {}

\* C38: for all f and d in [0, C), if subFromFractionalBalance(f, d) returns
\* (g, borrow) then addToFractionalBalance(g, d) returns (f, carry) with
\* carry = borrow, and if addToFractionalBalance(f, d) returns (g, carry)
\* then subFromFractionalBalance(g, d) returns (f, borrow) with
\* borrow = carry.
C38_SubAddInverse ==
    /\ (arith.op = "subFromFractionalBalance" /\ ArithInRange)
          => addToFractionalBalance(arith.bal, arith.d)
               = [panic |-> FALSE, bal |-> arith.f, flag |-> arith.flag]
    /\ (arith.op = "addToFractionalBalance" /\ ArithInRange)
          => subFromFractionalBalance(arith.bal, arith.d)
               = [panic |-> FALSE, bal |-> arith.f, flag |-> arith.flag]

\* an addition that carried, undone by a subtraction that borrows
C38_Witness ==
    /\ arith.op = "addToFractionalBalance"
    /\ ArithInRange
    /\ arith.f > 0 /\ arith.d > 0
    /\ arith.flag
    /\ arith.bal < arith.d
    /\ subFromFractionalBalance(arith.bal, arith.d).flag
    /\ subFromFractionalBalance(arith.bal, arith.d).bal = arith.f

====
